---- MODULE Spec2Model ----
(***************************************************************************)
(* A model of the pcap reader of src/lib.rs: PcapFile::read_file and the   *)
(* private decoders it drives (read_file_header, read_packets,             *)
(* read_packet, read_packet_header) over a byte stream.                    *)
(*                                                                         *)
(* Representation.  A byte is a number in 0..255.  A u16 is a number.  A   *)
(* u32 is held as two 16-bit limbs [hi, lo] (value hi * 65536 + lo),       *)
(* because TLC's integers are 32-bit signed and a u32 such as the magic    *)
(* number 0xA1B2C3D4 does not fit.  An i32 is a number.                    *)
(* A Result is a record with ok, error, and value; an Option is a sequence *)
(* of length 0 or 1.                                                       *)
(***************************************************************************)
EXTENDS Integers, Sequences, FiniteSets, TLC

(***************************************************************************)
(* Bounds of the input space.                                              *)
(***************************************************************************)
MaxRecords == 2      \* records written to a generated capture
MaxInclLen == 2      \* payload bytes of a generated record
MaxPartial == 1      \* bytes a failing read may have consumed before failing

(***************************************************************************)
(* Program constants.                                                      *)
(***************************************************************************)
PcapHeaderSize == 24     \* size_of::<PcapHeader>()
PacketHeaderSize == 16   \* size_of::<PacketHeader>()

Min(a, b) == IF a <= b THEN a ELSE b

U32(h, l) == [hi |-> h, lo |-> l]

(***************************************************************************)
(* Integer decoding, as {u16,u32,i32}::from_le_bytes on a slice b.         *)
(***************************************************************************)
u16_from_le_bytes(b) == b[1] + 256 * b[2]

\* Mutant: the field decoded big-endian.
u32_from_be_bytes(b) == U32(b[2] + 256 * b[1], b[4] + 256 * b[3])

u32_from_le_bytes(b) == U32(b[3] + 256 * b[4], b[1] + 256 * b[2])

i32_from_le_bytes(b) ==
    b[1] + 256 * b[2] + 65536 * b[3]
         + 16777216 * (IF b[4] >= 128 THEN b[4] - 256 ELSE b[4])

\* `incl_len as usize` (64-bit usize: lossless).  Exact below 2^30; a larger
\* value, which TLC's integers cannot hold, is given as 2^30: more
\* than the length of any file read here, so read_exact fails on it the same.
as_usize(u) == IF u.hi >= 16384 THEN 1073741824 ELSE u.hi * 65536 + u.lo

(***************************************************************************)
(* The writer side, used only to generate input captures and to state what *)
(* a decoded value should be: to_le_bytes of each width.                   *)
(***************************************************************************)
u16_to_le_bytes(v) == <<v % 256, v \div 256>>

u32_to_le_bytes(u) == u16_to_le_bytes(u.lo) \o u16_to_le_bytes(u.hi)

i32_to_le_bytes(v) ==
    <<v % 256, (v \div 256) % 256, (v \div 65536) % 256, (v \div 16777216) % 256>>

\* Global headers of generated captures.  1: the header the repository's test
\* expects of tests/test.pcap.  2: the byte-swapped magic, a negative
\* thiszone, and a different byte in every position of every field.
SourceHeaders ==
    << [magic_number |-> U32(41394, 50132), version_major |-> 2,
        version_minor |-> 4, thiszone |-> 0, sigfigs |-> U32(0, 0),
        snaplen |-> U32(0, 65535), network |-> U32(0, 1)],
       [magic_number |-> U32(54467, 45729), version_major |-> 513,
        version_minor |-> 1027, thiszone |-> -3600, sigfigs |-> U32(1286, 1800),
        snaplen |-> U32(2314, 2828), network |-> U32(3342, 3856)] >>

EncodeHeader(h) ==
    u32_to_le_bytes(h.magic_number) \o u16_to_le_bytes(h.version_major)
      \o u16_to_le_bytes(h.version_minor) \o i32_to_le_bytes(h.thiszone)
      \o u32_to_le_bytes(h.sigfigs) \o u32_to_le_bytes(h.snaplen)
      \o u32_to_le_bytes(h.network)

\* The i-th record of a generated capture, with n payload bytes stored.  When
\* `big`, the header claims 65536 more payload bytes than the file stores (a
\* corrupted length field).
SourceRecord(i, n, big) ==
    [header |-> [ts_sec   |-> U32(24320 + i, 4096 + i),
                 ts_usec  |-> U32(15, 16960 + i),
                 incl_len |-> U32(IF big THEN 1 ELSE 0, n),
                 orig_len |-> U32(0, n + 256)],
     data   |-> [j \in 1..n |-> 16 * i + j]]

EncodeRecord(r) ==
    u32_to_le_bytes(r.header.ts_sec) \o u32_to_le_bytes(r.header.ts_usec)
      \o u32_to_le_bytes(r.header.incl_len) \o u32_to_le_bytes(r.header.orig_len)
      \o r.data

RECURSIVE EncodeRecords(_)
EncodeRecords(rs) ==
    IF rs = <<>> THEN <<>>
    ELSE EncodeRecord(Head(rs)) \o EncodeRecords(Tail(rs))

\* The records of a capture whose payload sizes are lens; `big` corrupts the
\* length field of the last one.
SourceRecords(lens, big) ==
    [i \in 1..Len(lens) |-> SourceRecord(i, lens[i], big /\ i = Len(lens))]

Prefix(s, n) == SubSeq(s, 1, n)

SeqsUpTo(S, n) == UNION {[1..k -> S] : k \in 0..n}

(***************************************************************************)
(* The reader: a BufReader over the file, as a byte sequence and a         *)
(* position.  io is what the device does during one step of the program:   *)
(* nothing ("none"), or a failure other than end of input: its kind, the   *)
(* read of the step it strikes (the first or the second), and the number   *)
(* of bytes that read had consumed.  The first failure ends the step, so   *)
(* one per step is all there can be.                                       *)
(***************************************************************************)
IoErrorKinds == {"Other"}

IoNone == [kind |-> "none", consumed |-> 0, read |-> 0]

IoChoices(reads) ==
    {IoNone} \cup [kind : IoErrorKinds, consumed : 0..MaxPartial, read : 1..reads]

\* What the device does during the k-th read of the step.
IoAt(io, k) == IF io.read = k THEN io ELSE IoNone

\* Mutant: Read::read in place of read_exact, a short read taken as success.
read_short(s, p, n, io) ==
    IF n = 0 THEN [ok |-> TRUE, error |-> "none", pos |-> p, buf |-> <<>>]
    ELSE IF io.kind # "none"
      THEN [ok |-> FALSE, error |-> io.kind,
            pos |-> Min(p + Min(io.consumed, n - 1), Len(s)), buf |-> <<>>]
    ELSE [ok |-> TRUE, error |-> "none", pos |-> Min(p + n, Len(s)),
          buf |-> SubSeq(s, p + 1, Min(p + n, Len(s)))]

\* Read::read_exact on a buffer of n bytes at position p.  A zero-length
\* buffer is filled without touching the device.  End of input before the
\* buffer is full is ErrorKind::UnexpectedEof, with everything up to the end
\* consumed.
read_exact(s, p, n, io) ==
    IF n = 0 THEN [ok |-> TRUE, error |-> "none", pos |-> p, buf |-> <<>>]
    ELSE IF io.kind # "none"
      THEN [ok |-> FALSE, error |-> io.kind,
            pos |-> Min(p + Min(io.consumed, n - 1), Len(s)), buf |-> <<>>]
    ELSE IF Len(s) - p >= n
      THEN [ok |-> TRUE, error |-> "none", pos |-> p + n,
            buf |-> SubSeq(s, p + 1, p + n)]
    ELSE [ok |-> FALSE, error |-> "UnexpectedEof", pos |-> Len(s), buf |-> <<>>]

(***************************************************************************)
(* Decoders.                                                               *)
(***************************************************************************)
DecodePcapHeader(buffer) ==
    [magic_number  |-> u32_from_le_bytes(SubSeq(buffer, 1, 4)),
     version_major |-> u16_from_le_bytes(SubSeq(buffer, 5, 6)),
     version_minor |-> u16_from_le_bytes(SubSeq(buffer, 7, 8)),
     thiszone      |-> i32_from_le_bytes(SubSeq(buffer, 9, 12)),
     sigfigs       |-> u32_from_le_bytes(SubSeq(buffer, 13, 16)),
     snaplen       |-> u32_from_le_bytes(SubSeq(buffer, 17, 20)),
     network       |-> u32_from_le_bytes(SubSeq(buffer, 21, 24))]

\* Mutant: a failed read of the global header is swallowed and the default
\* header kept.
read_file_header_default(s, p, io) ==
    LET r == read_exact(s, p, PcapHeaderSize, io)
    IN  [ok |-> TRUE, error |-> "none", pos |-> r.pos,
         value |-> <<IF r.ok THEN DecodePcapHeader(r.buf)
                     ELSE [magic_number |-> U32(0, 0), version_major |-> 0,
                           version_minor |-> 0, thiszone |-> 0,
                           sigfigs |-> U32(0, 0), snaplen |-> U32(0, 0),
                           network |-> U32(0, 0)]>>]

read_file_header(s, p, io) ==
    LET r == read_exact(s, p, PcapHeaderSize, io)
    IN  IF r.ok
        THEN [ok |-> TRUE, error |-> "none", pos |-> r.pos,
              value |-> <<DecodePcapHeader(r.buf)>>]
        ELSE [ok |-> FALSE, error |-> r.error, pos |-> r.pos, value |-> <<>>]

DecodePacketHeader(buffer) ==
    [ts_sec   |-> u32_from_le_bytes(SubSeq(buffer, 1, 4)),
     ts_usec  |-> u32_from_le_bytes(SubSeq(buffer, 5, 8)),
     incl_len |-> u32_from_le_bytes(SubSeq(buffer, 9, 12)),
     orig_len |-> u32_from_le_bytes(SubSeq(buffer, 13, 16))]

read_packet_header(s, p, io) ==
    LET r == read_exact(s, p, PacketHeaderSize, io)
    IN  IF r.ok
        THEN [ok |-> TRUE, error |-> "none", pos |-> r.pos,
              value |-> <<DecodePacketHeader(r.buf)>>]
        ELSE [ok |-> FALSE, error |-> r.error, pos |-> r.pos, value |-> <<>>]

read_packet(s, p, io) ==
    LET h == read_packet_header(s, p, IoAt(io, 1))
    IN  IF ~h.ok THEN h
        ELSE LET header == h.value[1]
                 d == read_exact(s, h.pos, as_usize(header.incl_len), IoAt(io, 2))
             IN  IF d.ok
                 THEN [ok |-> TRUE, error |-> "none", pos |-> d.pos,
                       value |-> <<[header |-> header, data |-> d.buf]>>]
                 ELSE [ok |-> FALSE, error |-> d.error, pos |-> d.pos,
                       value |-> <<>>]

\* Mutant: the packet is inserted at the front of the vector.
match_packet_prepend(pkts, r) ==
    IF r.ok
      THEN [loop |-> TRUE, packets |-> <<r.value[1]>> \o pkts, ret |-> <<>>]
    ELSE IF r.error = "UnexpectedEof"
      THEN [loop |-> FALSE, packets |-> pkts,
            ret |-> <<[ok |-> TRUE, error |-> "none", value |-> <<pkts>>]>>]
    ELSE [loop |-> FALSE, packets |-> pkts,
          ret |-> <<[ok |-> FALSE, error |-> r.error, value |-> <<>>]>>]

\* Mutant: every error of read_packet is returned, end of input included.
match_packet_eof_fatal(pkts, r) ==
    IF r.ok
      THEN [loop |-> TRUE, packets |-> Append(pkts, r.value[1]), ret |-> <<>>]
    ELSE [loop |-> FALSE, packets |-> pkts,
          ret |-> <<[ok |-> FALSE, error |-> r.error, value |-> <<>>]>>]

\* Mutant: every error of read_packet breaks out of the loop.
match_packet_all_break(pkts, r) ==
    IF r.ok
      THEN [loop |-> TRUE, packets |-> Append(pkts, r.value[1]), ret |-> <<>>]
    ELSE [loop |-> FALSE, packets |-> pkts,
          ret |-> <<[ok |-> TRUE, error |-> "none", value |-> <<pkts>>]>>]

\* Mutant: end of input does `continue` where the code does `break`.
match_packet_eof_continue(pkts, r) ==
    IF r.ok
      THEN [loop |-> TRUE, packets |-> Append(pkts, r.value[1]), ret |-> <<>>]
    ELSE IF r.error = "UnexpectedEof"
      THEN [loop |-> TRUE, packets |-> pkts, ret |-> <<>>]
    ELSE [loop |-> FALSE, packets |-> pkts,
          ret |-> <<[ok |-> FALSE, error |-> r.error, value |-> <<>>]>>]

\* One turn of the loop of read_packets: the match on read_packet's result.
\* loop: whether the loop goes round again; ret: what read_packets returns
\* when it does not.
match_packet(pkts, r) ==
    IF r.ok
      THEN [loop |-> TRUE, packets |-> Append(pkts, r.value[1]), ret |-> <<>>]
    ELSE IF r.error = "UnexpectedEof"
      THEN [loop |-> FALSE, packets |-> pkts,
            ret |-> <<[ok |-> TRUE, error |-> "none", value |-> <<pkts>>]>>]
    ELSE [loop |-> FALSE, packets |-> pkts,
          ret |-> <<[ok |-> FALSE, error |-> r.error, value |-> <<>>]>>]

\* What read_file returns: Ok(Self { global_header, packets, .. }) or Err.
Pending == [status |-> "Pending", error |-> "none", capture |-> <<>>]

Err(e) == [status |-> "Err", error |-> e, capture |-> <<>>]

Ok(h, pkts) ==
    [status |-> "Ok", error |-> "none",
     capture |-> <<[global_header |-> h, packets |-> pkts]>>]

(***************************************************************************)
(* State.                                                                  *)
(***************************************************************************)
VARIABLES
    stream,        \* the bytes of the file
    src,           \* how the file was produced: header, payload sizes, cut
    pos,           \* the reader's position
    pc,            \* "Open", "Start", "HeaderRead", "RecordRead", "Done"
    file_header,   \* read_file's file_header, once decoded
    packets,       \* read_packets' vector
    result,        \* what read_file returned
    loop_entered,  \* read_packets was called
    io_failed,     \* where the device failed a read of this call, other than
                   \* by end of input: "none", "header" or "record"
    call,          \* 1 for the first read_file of the stream, 2 for the second
    first          \* what the first call returned, and its io_failed

vars == <<stream, src, pos, pc, file_header, packets, result, loop_entered,
          io_failed, call, first>>

FullStream(h, lens, big) ==
    EncodeHeader(SourceHeaders[h]) \o EncodeRecords(SourceRecords(lens, big))

RECURSIVE RecordEnd(_, _)
\* The offset just past the k-th record of the uncut capture; 24 for k = 0.
RecordEnd(lens, k) ==
    IF k = 0 THEN PcapHeaderSize
    ELSE RecordEnd(lens, k - 1) + PacketHeaderSize + lens[k]

\* Before read_file is called: no file yet.
Init ==
    /\ src = [h |-> 1, lens |-> <<>>, big |-> FALSE, cut |-> 0]
    /\ stream = <<>>
    /\ pos = 0
    /\ pc = "Open"
    /\ file_header = <<>>
    /\ packets = <<>>
    /\ result = Pending
    /\ loop_entered = FALSE
    /\ io_failed = "none"
    /\ call = 1
    /\ first = <<>>

\* The capture files read: a generated capture, cut after any number of
\* bytes.  Each file is generated once: the cut falls in the last record
\* written (a cut before it gives the file of a shorter capture), and a
\* corrupted length is written only when the cut leaves the record header
\* whole.
FirstCut(lens, big) ==
    IF lens = <<>> THEN 0
    ELSE IF big THEN RecordEnd(lens, Len(lens) - 1) + PacketHeaderSize
    ELSE RecordEnd(lens, Len(lens) - 1) + 1

SourceFiles ==
    UNION {[h : 1..Len(SourceHeaders), lens : {f[1]}, big : {f[2]},
            cut : FirstCut(f[1], f[2])..RecordEnd(f[1], Len(f[1]))] :
             f \in {g \in SeqsUpTo(0..MaxInclLen, MaxRecords) \X BOOLEAN :
                      g[2] => g[1] # <<>>}}

\* File::open and BufReader::new on the path given.
OpenFile ==
    /\ pc = "Open"
    /\ src' \in SourceFiles
    /\ stream' = Prefix(FullStream(src'.h, src'.lens, src'.big), src'.cut)
    /\ pos' = 0
    /\ pc' = "Start"
    /\ UNCHANGED <<file_header, packets, result, loop_entered, io_failed,
                   call, first>>

\* read_file up to the `?` on read_file_header.
ReadFileHeader ==
    /\ pc = "Start"
    /\ \E io \in IoChoices(1) :
         \E r \in {read_file_header(stream, pos, io)} :
             /\ pos' = r.pos
             /\ file_header' = r.value
             /\ io_failed' = IF ~r.ok /\ r.error \in IoErrorKinds
                                THEN "header" ELSE "none"
             /\ IF r.ok
                  THEN pc' = "HeaderRead" /\ result' = result
                  ELSE pc' = "Done" /\ result' = Err(r.error)
    /\ UNCHANGED <<stream, src, packets, loop_entered, call, first>>

\* The call of read_packets: the empty vector.
EnterReadPackets ==
    /\ pc = "HeaderRead"
    /\ packets' = <<>>
    /\ loop_entered' = TRUE
    /\ pc' = "RecordRead"
    /\ UNCHANGED <<stream, src, pos, file_header, result, io_failed, call, first>>

\* One turn of the loop of read_packets and, when it leaves the loop, the
\* return of read_packets and of read_file.
ReadPacketsTurn ==
    /\ pc = "RecordRead"
    /\ \E io \in IoChoices(2) :
         \E r \in {read_packet(stream, pos, io)} :
           \E m \in {match_packet(packets, r)} :
             /\ pos' = r.pos
             /\ packets' = m.packets
             /\ io_failed' = IF ~r.ok /\ r.error \in IoErrorKinds
                                THEN "record" ELSE "none"
             /\ IF m.loop
                  THEN pc' = "RecordRead" /\ result' = result
                  ELSE /\ pc' = "Done"
                       /\ result' = IF m.ret[1].ok
                                      THEN Ok(file_header[1], m.ret[1].value[1])
                                      ELSE Err(m.ret[1].error)
    /\ UNCHANGED <<stream, src, file_header, loop_entered, call, first>>

Next == OpenFile \/ ReadFileHeader \/ EnterReadPackets \/ ReadPacketsTurn

Spec == Init /\ [][Next]_vars

\* read_file runs on to its return: the program is sequential and every
\* read returns.
FairSpec == Spec /\ WF_vars(Next)

\* Mutant: the second call reuses the first call's reader without rewinding.
ReadFileAgainNoRewind ==
    /\ pc = "Done"
    /\ call = 1
    /\ first' = <<[result |-> result, io_failed |-> io_failed]>>
    /\ call' = 2
    /\ pos' = pos
    /\ pc' = "Start"
    /\ file_header' = <<>>
    /\ packets' = <<>>
    /\ result' = Pending
    /\ loop_entered' = FALSE
    /\ io_failed' = "none"
    /\ UNCHANGED <<stream, src>>

\* A second read_file on the same path: a new File and a new BufReader at
\* the start of the file, new locals.
ReadFileAgain ==
    /\ pc = "Done"
    /\ call = 1
    /\ first' = <<[result |-> result, io_failed |-> io_failed]>>
    /\ call' = 2
    /\ pos' = 0
    /\ pc' = "Start"
    /\ file_header' = <<>>
    /\ packets' = <<>>
    /\ result' = Pending
    /\ loop_entered' = FALSE
    /\ io_failed' = "none"
    /\ UNCHANGED <<stream, src>>

NextTwice == Next \/ ReadFileAgain

SpecTwice == Init /\ [][NextTwice]_vars

(***************************************************************************)
(* How the file under test was produced (from src), for stating the cases  *)
(* of the claims.                                                          *)
(***************************************************************************)
\* The records wholly present in the file, each with all the payload its
\* header declares.
NumComplete ==
    Cardinality({k \in 1..Len(src.lens) :
                   /\ RecordEnd(src.lens, k) <= src.cut
                   /\ ~(src.big /\ k = Len(src.lens))})

\* Bytes of the file after the last complete record.
TailBytes == src.cut - RecordEnd(src.lens, NumComplete)

HeaderComplete == src.cut >= PcapHeaderSize

\* Header, complete records, nothing else.
WellFormed == HeaderComplete /\ TailBytes = 0

\* Header, complete records, then 1..15 bytes of a record header.
CutInRecordHeader ==
    HeaderComplete /\ TailBytes >= 1 /\ TailBytes < PacketHeaderSize

\* Header, complete records, then a whole record header and less payload
\* than it declares.
CutInPayload == HeaderComplete /\ TailBytes >= PacketHeaderSize

ExpectedPackets == SubSeq(SourceRecords(src.lens, src.big), 1, NumComplete)

Returned == pc = "Done"

(***************************************************************************)
(* Claims.                                                                 *)
(***************************************************************************)

\* C1: a file cut inside a record's payload (global header and record header
\* whole, fewer payload bytes than incl_len) makes read_file return an error,
\* never success.
C1_TruncatedPayloadIsFatal ==
    (Returned /\ CutInPayload) => result.status = "Err"

\* C2: a file cut inside a record header (1 to 15 of its 16 bytes present)
\* makes read_file return an error, never success.
C2_TruncatedRecordHeaderIsFatal ==
    (Returned /\ CutInRecordHeader) => result.status = "Err"

\* C3: in every Capture read_file returns, and in the vector read_packets
\* builds, each record's payload has exactly incl_len bytes.
C3_PayloadLenIsInclLen ==
    /\ \A i \in 1..Len(packets) :
         Len(packets[i].data) = as_usize(packets[i].header.incl_len)
    /\ \A c \in 1..Len(result.capture) :
         \A i \in 1..Len(result.capture[c].packets) :
           Len(result.capture[c].packets[i].data)
             = as_usize(result.capture[c].packets[i].header.incl_len)

C3_Witness ==
    /\ result.status = "Ok"
    /\ \E i, j \in 1..Len(result.capture[1].packets) :
         /\ result.capture[1].packets[i].data = <<>>
         /\ Len(result.capture[1].packets[j].data) = MaxInclLen

\* C4: a well-formed file of n records, read without a device failure, makes
\* read_file succeed with exactly those n records in file order.
C4_RecordsInFileOrder ==
    (Returned /\ WellFormed /\ io_failed = "none")
      => /\ result.status = "Ok"
         /\ result.capture[1].packets = ExpectedPackets
         /\ Len(result.capture[1].packets) = NumComplete

C4_Witness ==
    /\ Returned /\ WellFormed /\ io_failed = "none"
    /\ NumComplete >= 2
    /\ Len(result.capture[1].packets) >= 2

\* C5: a file of fewer than 24 bytes: read_packets is never called, no
\* Capture is returned, and read_file ends in the error of read_file_header.
C5_ShortGlobalHeaderIsFatal ==
    Len(stream) < PcapHeaderSize
      => /\ ~loop_entered
         /\ pc \in {"Open", "Start", "Done"}
         /\ packets = <<>>
         /\ result.capture = <<>>
         /\ Returned => result.status = "Err"

C5_Witness ==
    /\ Returned
    /\ Len(stream) = PcapHeaderSize - 1
    /\ result = Err("UnexpectedEof")

\* C6: a file that is exactly one global header, read without a device
\* failure, makes read_file succeed with no records.
C6_HeaderOnlyIsEmptyCapture ==
    (Returned /\ Len(stream) = PcapHeaderSize /\ io_failed = "none")
      => result = Ok(SourceHeaders[src.h], <<>>)

C6_Witness ==
    /\ Returned /\ Len(stream) = PcapHeaderSize /\ io_failed = "none"
    /\ result.status = "Ok"
    /\ loop_entered

\* C7: once read_file_header has returned a header, it has consumed exactly
\* 24 bytes, and every field is the little-endian value of its bytes at the
\* field's offset, whatever the magic number.
C7_GlobalHeaderDecoding ==
    /\ pc = "HeaderRead" => pos = PcapHeaderSize
    /\ file_header # <<>>
         => /\ file_header[1] = SourceHeaders[src.h]
            /\ u32_to_le_bytes(file_header[1].magic_number) = SubSeq(stream, 1, 4)
            /\ u16_to_le_bytes(file_header[1].version_major) = SubSeq(stream, 5, 6)
            /\ u16_to_le_bytes(file_header[1].version_minor) = SubSeq(stream, 7, 8)
            /\ i32_to_le_bytes(file_header[1].thiszone) = SubSeq(stream, 9, 12)
            /\ u32_to_le_bytes(file_header[1].sigfigs) = SubSeq(stream, 13, 16)
            /\ u32_to_le_bytes(file_header[1].snaplen) = SubSeq(stream, 17, 20)
            /\ u32_to_le_bytes(file_header[1].network) = SubSeq(stream, 21, 24)

C7_Witness ==
    /\ pc = "HeaderRead"
    /\ file_header[1].magic_number = U32(54467, 45729)
    /\ file_header[1].thiszone < 0

C9_IoErrorDiscardsPackets ==
    (Returned /\ io_failed = "record")
      => /\ result.status = "Err"
         /\ result.error \in IoErrorKinds
         /\ result.capture = <<>>

C9_Witness ==
    /\ Returned /\ io_failed = "record"
    /\ Len(packets) >= 2
    /\ result.status = "Err"

\* C10: on every file read_file returns, so the loop of read_packets, if
\* entered, is left.  The reader's position never goes
\* back; a turn of the loop that appends a record moves it on by
\* 16 + incl_len bytes; a turn that appends nothing leaves the loop.
C10_LoopProgress ==
    /\ pos' >= pos
    /\ pc = "RecordRead"
         => IF packets' # packets
              THEN /\ Len(packets') = Len(packets) + 1
                   /\ SubSeq(packets', 1, Len(packets)) = packets
                   /\ pos' = pos + PacketHeaderSize
                               + as_usize(packets'[Len(packets')].header.incl_len)
                   /\ pos' >= pos + PacketHeaderSize
                   /\ pc' = "RecordRead"
              ELSE pc' = "Done"

C10_Terminates == [][C10_LoopProgress]_vars /\ <>Returned

C10_Witness ==
    /\ Returned
    /\ Len(packets) >= 2
    /\ pos = Len(stream)
    /\ result.status = "Ok"

====
